---- MODULE Spec2Model ----
(***************************************************************************)
(* Model of package conf (unixdj/conf): the command line parser doGetOpt   *)
(* behind GetOpt, GetOptLong and GetOptLongOnly (getopt.go), and the       *)
(* configuration file parser Parse (conf.go), both writing into one        *)
(* registry []Var.                                                         *)
(*                                                                         *)
(* A Go string is modelled as a sequence of one-character strings, so that *)
(* the byte-by-byte code (arg[0], this[size:], strings.Index, regexps) can *)
(* be translated as written.  The rune 0 is the empty string "".           *)
(***************************************************************************)
EXTENDS Integers, Sequences, FiniteSets, TLC

\* ------------------------------------------------------------------------
\* Bounds of the model
\* ------------------------------------------------------------------------

\* longest argument vector (os.Args[1:]) drawn from ArgPool
MaxArgs == 2

\* most lines of a configuration file drawn from LinePool
MaxLines == 2

\* most pieces (characters and escapes) of a quoted value drawn from Pieces
MaxPieces == 2

\* longest string written as a quoted value
MaxChars == 2

\* ------------------------------------------------------------------------
\* Program constants
\* ------------------------------------------------------------------------

\* Var.Kind
HasArg == 0
NoArg == 1
LineArg == 2

\* flavour of doGetOpt
short == 0
xLong == 1
gnuLong == 2

\* kind of argument, as classified by nextArg
shortFlag == 0
longFlag == 1
gnuLongFlag == 2
falseFlag == 3
endArg == 4
endArgSkip == 5

\* the errors of getopt.go and conf.go, by their message
errIllOpt == "illegal option"
errNoArg == "option requires an argument"
errEndJunk == "junk at end of option"
errSyntax == "syntax error"
errLineTooLong == "line too long"
errReqNotSet == "required but not set"
errAlreadyDef == "already defined"
errUnknownVar == "unknown variable"

\* utf8.RuneError, the rune DecodeRuneInString yields for an invalid byte
RuneError == "RuneError"

\* a nil error
NoError == [Err |-> "nil", Flag |-> "", Value |-> <<>>, Line |-> 0, Ident |-> <<>>]

\* newError of getopt.go: FlagError{f, v, e}
newError(f, v, e) == [Err |-> e, Flag |-> f, Value |-> v, Line |-> 0, Ident |-> <<>>]

\* (*FlagError).Error: the text after "Err -- ", which is Value unless that
\* is empty or "true", else string(Flag); string(0) is the one-character
\* string holding the rune 0
FlagErrorToken(e) ==
    IF e.Value # <<>> /\ e.Value # <<"t", "r", "u", "e">> THEN e.Value
    ELSE <<e.Flag>>

\* ------------------------------------------------------------------------
\* Strings
\* ------------------------------------------------------------------------

S_true == <<"t", "r", "u", "e">>
S_false == <<"f", "a", "l", "s", "e">>
S_param == <<"p", "a", "r", "a", "m">>
S_arg0 == <<"a", "r", "g", "0">>
S_arg1 == <<"a", "r", "g", "1">>
S_default == <<"d", "e", "f">>

\* s[n:] of Go, n counted from 0
From(s, n) == SubSeq(s, n + 1, Len(s))

\* s[:n] of Go
UpTo(s, n) == SubSeq(s, 1, n)

\* strings.Index(s, c) for a one-character c: 0-based, -1 when absent
Index(s, c) ==
    LET hits == {i \in 1..Len(s) : s[i] = c}
    IN IF hits = {} THEN -1
       ELSE (CHOOSE i \in hits : \A j \in hits : i <= j) - 1

\* unicode.ToLower on the ASCII letters, for strings.EqualFold
Lower(c) ==
    CASE c = "Y" -> "y"
      [] c = "N" -> "n"
      [] c = "T" -> "t"
      [] c = "F" -> "f"
      [] c = "E" -> "e"
      [] c = "S" -> "s"
      [] c = "O" -> "o"
      [] OTHER -> c

EqualFold(s, t) ==
    /\ Len(s) = Len(t)
    /\ \A i \in 1..Len(s) : Lower(s[i]) = Lower(t[i])

strInList(s, l) == \E v \in l : EqualFold(s, v)

\* ------------------------------------------------------------------------
\* Values
\* ------------------------------------------------------------------------

falseList ==
    { <<"0">>, S_false, <<"f">>, <<"o", "f", "f">>, <<"n", "o">>, <<"n">>,
      <<"d", "i", "s", "a", "b", "l", "e", "d">> }

trueList ==
    { <<"1">>, S_true, <<"t">>, <<"o", "n">>, <<"y", "e", "s">>, <<"y">>,
      <<"e", "n", "a", "b", "l", "e", "d">> }

\* (*StringValue).Set: stores s, never fails
StringValueSet(s) == [err |-> "nil", val |-> s]

\* (*BoolValue).Set: the stored bool is kept as its String() text
BoolValueSet(s) ==
    IF strInList(s, falseList) THEN [err |-> "nil", val |-> S_false]
    ELSE IF strInList(s, trueList) THEN [err |-> "nil", val |-> S_true]
    ELSE [err |-> errSyntax, val |-> <<>>]

\* Value.Set of the Var v, dispatched on the type behind the interface
ValSet(v, s) ==
    IF v.Val = "BoolValue" THEN BoolValueSet(s) ELSE StringValueSet(s)

\* ------------------------------------------------------------------------
\* The registry
\* ------------------------------------------------------------------------

\* one Var; set and flagSet start false
MkVar(flag, name, val, kind, req) ==
    [Flag |-> flag, Name |-> name, Val |-> val, Kind |-> kind,
     Required |-> req, set |-> FALSE, flagSet |-> FALSE]

\* the registry handed to both parsers; r2 and r5 are the Required
\* attributes of the two Vars that can be required
Registry(r2, r5) ==
    << MkVar("n", <<"t">>, "BoolValue", NoArg, FALSE),
       MkVar("h", <<"h">>, "StringValue", HasArg, r2),
       MkVar("", <<"f">>, "BoolValue", NoArg, FALSE),
       MkVar("l", <<"l">>, "StringValue", LineArg, FALSE),
       MkVar("k", <<"k">>, "BoolValue", HasArg, r5),
       MkVar("c", <<>>, "StringValue", HasArg, FALSE) >>

\* the Go variables behind the Values, before any parser ran
InitVal == [i \in 1..6 |-> IF i \in {1, 3, 5} THEN S_false ELSE S_default]

\* ------------------------------------------------------------------------
\* getopt.go
\* ------------------------------------------------------------------------

\* nextArg taking "+name" for "-name" in the X11 flavour
nextArgPlusTrue(arg, flavour) ==
    IF Len(arg) <= 1 THEN [kind |-> endArg, this |-> <<>>]
    ELSE IF arg[1] = "-" THEN
        IF arg[2] = "-" /\ Len(arg) = 2 THEN [kind |-> endArgSkip, this |-> <<>>]
        ELSE IF arg[2] = "-" /\ flavour = gnuLong
            THEN [kind |-> gnuLongFlag, this |-> From(arg, 2)]
        ELSE IF flavour = xLong THEN [kind |-> longFlag, this |-> From(arg, 1)]
        ELSE [kind |-> shortFlag, this |-> From(arg, 1)]
    ELSE IF arg[1] = "+" /\ flavour = xLong
        THEN [kind |-> longFlag, this |-> From(arg, 1)]
    ELSE [kind |-> endArg, this |-> <<>>]

\* nextArg leaving "--" in Args like any other non-flag argument
nextArgKeepDashes(arg, flavour) ==
    IF Len(arg) <= 1 THEN [kind |-> endArg, this |-> <<>>]
    ELSE IF arg[1] = "-" THEN
        IF arg[2] = "-" /\ Len(arg) = 2 THEN [kind |-> endArg, this |-> <<>>]
        ELSE IF arg[2] = "-" /\ flavour = gnuLong
            THEN [kind |-> gnuLongFlag, this |-> From(arg, 2)]
        ELSE IF flavour = xLong THEN [kind |-> longFlag, this |-> From(arg, 1)]
        ELSE [kind |-> shortFlag, this |-> From(arg, 1)]
    ELSE IF arg[1] = "+" /\ flavour = xLong
        THEN [kind |-> falseFlag, this |-> From(arg, 1)]
    ELSE [kind |-> endArg, this |-> <<>>]

nextArg(arg, flavour) ==
    IF Len(arg) <= 1 THEN [kind |-> endArg, this |-> <<>>]
    ELSE IF arg[1] = "-" THEN
        IF arg[2] = "-" /\ Len(arg) = 2 THEN [kind |-> endArgSkip, this |-> <<>>]
        ELSE IF arg[2] = "-" /\ flavour = gnuLong
            THEN [kind |-> gnuLongFlag, this |-> From(arg, 2)]
        ELSE IF flavour = xLong THEN [kind |-> longFlag, this |-> From(arg, 1)]
        ELSE [kind |-> shortFlag, this |-> From(arg, 1)]
    ELSE IF arg[1] = "+" /\ flavour = xLong
        THEN [kind |-> falseFlag, this |-> From(arg, 1)]
    ELSE [kind |-> endArg, this |-> <<>>]

\* nextFlag dropping the rest of a cluster after its first flag
nextFlagWhole(this, kind) ==
    IF kind = shortFlag
        THEN [flag |-> this[1], long |-> <<>>, this |-> <<>>]
    ELSE IF kind = gnuLongFlag /\ Index(this, "=") # -1
        THEN [flag |-> "=", long |-> UpTo(this, Index(this, "=")),
              this |-> From(this, Index(this, "=") + 1)]
    ELSE [flag |-> "", long |-> this, this |-> <<>>]

\* nextFlag leaving the "=" at the head of the value of "--name=value"
nextFlagKeepEq(this, kind) ==
    IF kind = shortFlag
        THEN [flag |-> this[1], long |-> <<>>, this |-> From(this, 1)]
    ELSE IF kind = gnuLongFlag /\ Index(this, "=") # -1
        THEN [flag |-> "=", long |-> UpTo(this, Index(this, "=")),
              this |-> From(this, Index(this, "="))]
    ELSE [flag |-> "", long |-> this, this |-> <<>>]

nextFlag(this, kind) ==
    IF kind = shortFlag
        THEN [flag |-> this[1], long |-> <<>>, this |-> From(this, 1)]
    ELSE IF kind = gnuLongFlag /\ Index(this, "=") # -1
        THEN [flag |-> "=", long |-> UpTo(this, Index(this, "=")),
              this |-> From(this, Index(this, "=") + 1)]
    ELSE [flag |-> "", long |-> this, this |-> <<>>]

\* findFlag matching a Var by its Flag or by its Name in every flavour
findFlagEither(flag, long, kind, vs) ==
    LET eq(i) == vs[i].Flag = flag \/ vs[i].Name = long
        found == {i \in 1..Len(vs) : eq(i)}
    IN IF found = {} THEN 0
       ELSE CHOOSE i \in found : \A j \in found : i <= j

\* findFlag falling back to the first Var when none matches
findFlagDefault(flag, long, kind, vs) ==
    LET eq(i) == IF kind = shortFlag THEN vs[i].Flag = flag
                 ELSE vs[i].Name = long
        found == {i \in 1..Len(vs) : eq(i)}
    IN IF found = {} THEN 1
       ELSE CHOOSE i \in found : \A j \in found : i <= j

\* index of the Var found in vs, 0 for nil
findFlag(flag, long, kind, vs) ==
    LET eq(i) == IF kind = shortFlag THEN vs[i].Flag = flag
                 ELSE vs[i].Name = long
        found == {i \in 1..Len(vs) : eq(i)}
    IN IF found = {} THEN 0
       ELSE CHOOSE i \in found : \A j \in found : i <= j

\* flagParam refusing a next argument that begins with "-" as a value
flagParamNoDash(v, kind, flag, long, this, args) ==
    LET fail(e) == [err |-> e, p |-> <<>>, this |-> this, Args |-> args]
        ok(p, t, a) == [err |-> NoError, p |-> p, this |-> t, Args |-> a]
    IN CASE kind = falseFlag ->
              IF v.Kind # NoArg THEN fail(newError(flag, long, errIllOpt))
              ELSE ok(S_false, this, args)
         [] kind # falseFlag /\ v.Kind = NoArg ->
              IF kind = gnuLongFlag /\ flag = "="
                  THEN fail(newError("", this, errEndJunk))
              ELSE ok(S_true, this, args)
         [] kind # falseFlag /\ v.Kind = LineArg ->
              IF this # <<>> THEN fail(newError("", this, errEndJunk))
              ELSE ok(<<>>, this, args)
         [] OTHER ->
              IF this # <<>> THEN ok(this, <<>>, args)
              ELSE IF kind = gnuLongFlag /\ flag = "=" THEN ok(<<>>, this, args)
              ELSE IF Len(args) # 0 /\ (Head(args) = <<>> \/ Head(args)[1] # "-")
                  THEN ok(Head(args), this, Tail(args))
              ELSE fail(newError(flag, <<>>, errNoArg))

\* the switch of doGetOpt that chooses the parameter p of Value.Set for the
\* Var v: err is the error returned, or nil with p, this and Args as left
flagParam(v, kind, flag, long, this, args) ==
    LET fail(e) == [err |-> e, p |-> <<>>, this |-> this, Args |-> args]
        ok(p, t, a) == [err |-> NoError, p |-> p, this |-> t, Args |-> a]
    IN CASE kind = falseFlag ->
              IF v.Kind # NoArg THEN fail(newError(flag, long, errIllOpt))
              ELSE ok(S_false, this, args)
         [] kind # falseFlag /\ v.Kind = NoArg ->
              IF kind = gnuLongFlag /\ flag = "="
                  THEN fail(newError("", this, errEndJunk))
              ELSE ok(S_true, this, args)
         [] kind # falseFlag /\ v.Kind = LineArg ->
              IF this # <<>> THEN fail(newError("", this, errEndJunk))
              ELSE ok(<<>>, this, args)
         [] OTHER ->
              IF this # <<>> THEN ok(this, <<>>, args)
              ELSE IF kind = gnuLongFlag /\ flag = "=" THEN ok(<<>>, this, args)
              ELSE IF Len(args) # 0 THEN ok(Head(args), this, Tail(args))
              ELSE fail(newError(flag, <<>>, errNoArg))

\* flagStep refusing a Var that the configuration file has set
flagStepUnlessSet(this, kind, args, vs) ==
    LET f == nextFlag(this, kind)
        v == findFlag(f.flag, f.long, kind, vs)
        stop(e) == [err |-> e, v |-> v, p |-> <<>>, called |-> FALSE,
                    val |-> <<>>, this |-> f.this, Args |-> args]
    IN IF f.flag = RuneError THEN stop(newError(f.flag, f.long, errSyntax))
       ELSE IF v = 0 THEN stop(newError(f.flag, f.long, errIllOpt))
       ELSE IF vs[v].set THEN stop(newError(f.flag, f.long, errAlreadyDef))
       ELSE LET c == flagParam(vs[v], kind, f.flag, f.long, f.this, args)
                s == ValSet(vs[v], c.p)
            IN IF c.err # NoError THEN stop(c.err)
               ELSE [err |-> IF s.err = "nil" THEN NoError
                             ELSE newError(f.flag, c.p, s.err),
                     v |-> v, p |-> c.p, called |-> TRUE, val |-> s.val,
                     this |-> c.this, Args |-> c.Args]

\* flagStep refusing a Var whose flagSet is already true
flagStepOnce(this, kind, args, vs) ==
    LET f == nextFlag(this, kind)
        v == findFlag(f.flag, f.long, kind, vs)
        stop(e) == [err |-> e, v |-> v, p |-> <<>>, called |-> FALSE,
                    val |-> <<>>, this |-> f.this, Args |-> args]
    IN IF f.flag = RuneError THEN stop(newError(f.flag, f.long, errSyntax))
       ELSE IF v = 0 THEN stop(newError(f.flag, f.long, errIllOpt))
       ELSE IF vs[v].flagSet THEN stop(newError(f.flag, f.long, "option already set"))
       ELSE LET c == flagParam(vs[v], kind, f.flag, f.long, f.this, args)
                s == ValSet(vs[v], c.p)
            IN IF c.err # NoError THEN stop(c.err)
               ELSE [err |-> IF s.err = "nil" THEN NoError
                             ELSE newError(f.flag, c.p, s.err),
                     v |-> v, p |-> c.p, called |-> TRUE, val |-> s.val,
                     this |-> c.this, Args |-> c.Args]

\* one pass of the inner loop of doGetOpt up to and including the call of
\* Value.Set: v is the Var found (0 for nil), called tells whether Set ran,
\* val is what Set stored, err the error the pass returns (nil to go on)
flagStep(this, kind, args, vs) ==
    LET f == nextFlag(this, kind)
        v == findFlag(f.flag, f.long, kind, vs)
        stop(e) == [err |-> e, v |-> v, p |-> <<>>, called |-> FALSE,
                    val |-> <<>>, this |-> f.this, Args |-> args]
    IN IF f.flag = RuneError THEN stop(newError(f.flag, f.long, errSyntax))
       ELSE IF v = 0 THEN stop(newError(f.flag, f.long, errIllOpt))
       ELSE LET c == flagParam(vs[v], kind, f.flag, f.long, f.this, args)
                s == ValSet(vs[v], c.p)
            IN IF c.err # NoError THEN stop(c.err)
               ELSE [err |-> IF s.err = "nil" THEN NoError
                             ELSE newError(f.flag, c.p, s.err),
                     v |-> v, p |-> c.p, called |-> TRUE, val |-> s.val,
                     this |-> c.this, Args |-> c.Args]

\* where doGetOpt goes after a successful Set: the break after a LineArg
\* leaves the inner loop, whose condition is len(this) > 0
afterSet(v, this) ==
    IF v.Kind = LineArg THEN "outer"
    ELSE IF Len(this) > 0 THEN "inner"
    ELSE "outer"

\* ------------------------------------------------------------------------
\* conf.go: the tokens of a line
\* ------------------------------------------------------------------------

LowerCase ==
    << "a", "b", "c", "d", "e", "f", "g", "h", "i", "j", "k", "l", "m",
       "n", "o", "p", "q", "r", "s", "t", "u", "v", "w", "x", "y", "z" >>

UpperCase ==
    << "A", "B", "C", "D", "E", "F", "G", "H", "I", "J", "K", "L", "M",
       "N", "O", "P", "Q", "R", "S", "T", "U", "V", "W", "X", "Y", "Z" >>

Digits == << "0", "1", "2", "3", "4", "5", "6", "7", "8", "9" >>

Range(s) == {s[i] : i \in 1..Len(s)}

\* the position of c in the sequence s, 0 when absent
Pos(s, c) == IF c \in Range(s) THEN CHOOSE i \in 1..Len(s) : s[i] = c ELSE 0

\* the character of code point n: the ASCII characters as themselves, any
\* other code point as the text "U+n"
Chr(n) ==
    IF n \in 97..122 THEN LowerCase[n - 96]
    ELSE IF n \in 65..90 THEN UpperCase[n - 64]
    ELSE IF n \in 48..57 THEN Digits[n - 47]
    ELSE CASE n = 9 -> "\t"
           [] n = 10 -> "\n"
           [] n = 12 -> "\f"
           [] n = 13 -> "\r"
           [] n = 32 -> " "
           [] n = 34 -> "\""
           [] n = 35 -> "#"
           [] n = 39 -> "'"
           [] n = 45 -> "-"
           [] n = 47 -> "/"
           [] n = 58 -> ":"
           [] n = 61 -> "="
           [] n = 91 -> "["
           [] n = 92 -> "\\"
           [] n = 93 -> "]"
           [] n = 95 -> "_"
           [] OTHER -> "U+" \o ToString(n)

\* the characters of Unicode class C up to U+00FF, as Chr writes them: the
\* control characters U+0000-U+001F and U+007F-U+009F and the soft hyphen
Control ==
    {
      "U+0", "U+1", "U+2", "U+3", "U+4", "U+5", "U+6", "U+7",
      "U+8", "\t", "\n", "U+11", "\f", "\r", "U+14", "U+15",
      "U+16", "U+17", "U+18", "U+19", "U+20", "U+21", "U+22", "U+23",
      "U+24", "U+25", "U+26", "U+27", "U+28", "U+29", "U+30", "U+31",
      "U+127", "U+128", "U+129", "U+130", "U+131", "U+132", "U+133", "U+134",
      "U+135", "U+136", "U+137", "U+138", "U+139", "U+140", "U+141", "U+142",
      "U+143", "U+144", "U+145", "U+146", "U+147", "U+148", "U+149", "U+150",
      "U+151", "U+152", "U+153", "U+154", "U+155", "U+156", "U+157", "U+158",
      "U+159", "U+173" }

\* the characters of Unicode class Z up to U+00FF: space and no-break space
Separator == {" ", "U+160"}

\* unicode.IsSpace, up to U+00FF
IsSpace(c) == c \in {"\t", "\n", "U+11", "\f", "\r", " ", "U+133", "U+160"}

RECURSIVE eatSpace(_)
\* strings.TrimLeftFunc(s, unicode.IsSpace)
eatSpace(s) ==
    IF s # <<>> /\ IsSpace(s[1]) THEN eatSpace(Tail(s)) ELSE s

RECURSIVE Run(_, _)
\* the length of the longest prefix of s made of characters of the set ok
Run(s, ok) ==
    IF s # <<>> /\ s[1] \in ok THEN 1 + Run(Tail(s), ok) ELSE 0

IdentAlpha == Range(LowerCase) \cup Range(UpperCase) \cup {"-", "_"}

IdentAlnum == IdentAlpha \cup Range(Digits)

\* identRE.FindString(s), identRE = ^[-_a-zA-Z][-_a-zA-Z0-9]*
identRE(s) ==
    IF s # <<>> /\ s[1] \in IdentAlpha THEN UpTo(s, 1 + Run(Tail(s), IdentAlnum))
    ELSE <<>>

\* a character a plain value may hold: [^\pZ\pC"#'=\\]
IsPlain(c) ==
    /\ c \notin Separator
    /\ c \notin Control
    /\ c \notin {"\"", "#", "'", "=", "\\"}

RECURSIVE PlainRun(_)
PlainRun(s) ==
    IF s # <<>> /\ IsPlain(s[1]) THEN 1 + PlainRun(Tail(s)) ELSE 0

\* plainRE.FindString(s), plainRE = ^[^\pZ\pC"#'=\\]+
plainRE(s) == UpTo(s, PlainRun(s))

\* QuotedEnd taking the first quote for the closing one, escaped or not
QuotedEndFirst(s, i) ==
    LET quotes == {k \in i..Len(s) : s[k] = "\""}
    IN IF quotes = {} THEN 0
       ELSE CHOOSE k \in quotes : \A j \in quotes : k <= j

RECURSIVE QuotedEnd(_, _)
\* the index of the quote that closes the quoted value of s, scanning from
\* index i, 0 when (?:[^\pC"\\]|\\[^\pC])*" does not match there
QuotedEnd(s, i) ==
    IF i > Len(s) THEN 0
    ELSE IF s[i] = "\"" THEN i
    ELSE IF s[i] = "\\"
        THEN IF i + 1 <= Len(s) /\ s[i + 1] \notin Control
                 THEN QuotedEnd(s, i + 2)
             ELSE 0
    ELSE IF s[i] \in Control THEN 0
    ELSE QuotedEnd(s, i + 1)

\* quotedRE.FindString(s), quotedRE = ^"(?:[^\pC"\\]|\\[^\pC])*"
quotedRE(s) ==
    IF s # <<>> /\ s[1] = "\"" THEN UpTo(s, QuotedEnd(s, 2)) ELSE <<>>

\* the value of a hexadecimal digit, -1 for any other character
Unhex(c) ==
    IF Pos(Digits, c) # 0 THEN Pos(Digits, c) - 1
    ELSE IF Pos(UpTo(LowerCase, 6), c) # 0 THEN Pos(UpTo(LowerCase, 6), c) + 9
    ELSE IF Pos(UpTo(UpperCase, 6), c) # 0 THEN Pos(UpTo(UpperCase, 6), c) + 9
    ELSE -1

RECURSIVE HexValue(_)
\* the number written by the hexadecimal digits s, -1 if one is no digit
HexValue(s) ==
    IF s = <<>> THEN 0
    ELSE LET hi == HexValue(UpTo(s, Len(s) - 1))
             lo == Unhex(s[Len(s)])
         IN IF hi < 0 \/ lo < 0 THEN -1 ELSE hi * 16 + lo

RECURSIVE OctValue(_)
\* the number written by the octal digits s, -1 if one is no digit
OctValue(s) ==
    IF s = <<>> THEN 0
    ELSE LET hi == OctValue(UpTo(s, Len(s) - 1))
             lo == Unhex(s[Len(s)])
         IN IF hi < 0 \/ lo < 0 \/ lo > 7 THEN -1 ELSE hi * 8 + lo

\* the byte b of a \x or octal escape as a character of the string
Byte(b) == IF b < 128 THEN Chr(b) ELSE "byte " \o ToString(b)

\* strconv.UnquoteChar(s, '"'): n is the number of characters consumed,
\* 0 for a syntax error, and c the character they denote
UnquoteChar(s) ==
    LET bad == [n |-> 0, c |-> ""]
        esc == s[2]
        simple == << "a", "b", "f", "n", "r", "t", "v" >>
        codes == << 7, 8, 12, 10, 13, 9, 11 >>
        hexLen == CASE esc = "x" -> 2 [] esc = "u" -> 4 [] OTHER -> 8
        hex == HexValue(SubSeq(s, 3, 2 + hexLen))
        oct == OctValue(SubSeq(s, 2, 4))
    IN IF s[1] = "\"" THEN bad
       ELSE IF s[1] # "\\" THEN [n |-> 1, c |-> s[1]]
       ELSE IF Len(s) <= 1 THEN bad
       ELSE IF Pos(simple, esc) # 0 THEN [n |-> 2, c |-> Chr(codes[Pos(simple, esc)])]
       ELSE IF esc \in {"x", "u", "U"} THEN
           IF Len(s) - 2 < hexLen \/ hex < 0 THEN bad
           ELSE IF esc = "x" THEN [n |-> 4, c |-> Byte(hex)]
           ELSE IF hex > 1114111 \/ hex \in 55296..57343 THEN bad
           ELSE [n |-> 2 + hexLen, c |-> Chr(hex)]
       ELSE IF Unhex(esc) \in 0..7 THEN
           IF Len(s) - 2 < 2 \/ oct < 0 \/ oct > 255 THEN bad
           ELSE [n |-> 4, c |-> Byte(oct)]
       ELSE IF esc \in {"\\", "\""} THEN [n |-> 2, c |-> esc]
       ELSE bad

RECURSIVE UnquoteBody(_)
\* the loop of strconv.Unquote over the text between the quotes
UnquoteBody(s) ==
    IF s = <<>> THEN [ok |-> TRUE, str |-> <<>>]
    ELSE LET u == UnquoteChar(s)
             rest == UnquoteBody(From(s, u.n))
         IN IF u.n = 0 \/ ~rest.ok THEN [ok |-> FALSE, str |-> <<>>]
            ELSE [ok |-> TRUE, str |-> <<u.c>> \o rest.str]

\* Unquote returning the text between the quotes as it is written
UnquoteRaw(s) ==
    IF Len(s) < 2 \/ s[1] # "\"" \/ s[Len(s)] # "\"" \/ "\n" \in Range(s)
        THEN [ok |-> FALSE, str |-> <<>>]
    ELSE [ok |-> TRUE, str |-> SubSeq(s, 2, Len(s) - 1)]

\* strconv.Unquote(s) for a double-quoted s
Unquote(s) ==
    IF Len(s) < 2 \/ s[1] # "\"" \/ s[Len(s)] # "\"" \/ "\n" \in Range(s)
        THEN [ok |-> FALSE, str |-> <<>>]
    ELSE UnquoteBody(SubSeq(s, 2, Len(s) - 1))

\* ------------------------------------------------------------------------
\* conf.go: parseLine, setValue and the required check
\* ------------------------------------------------------------------------

\* ParseError{p.file, line, ident, value, e}; the file name is left out
ParseError(ln, ident, value, e) ==
    [Err |-> e, Flag |-> "", Value |-> value, Line |-> ln, Ident |-> ident]

\* the result of a line on which no Var was found or none was looked for
NoVar(e) == [err |-> e, v |-> 0, called |-> FALSE, p |-> <<>>, val |-> <<>>,
             mark |-> FALSE]

\* index of the first Var of vs whose Name is ident, 0 if there is none
findName(ident, vs) ==
    LET found == {i \in 1..Len(vs) : vs[i].Name = ident}
    IN IF found = {} THEN 0
       ELSE CHOOSE i \in found : \A j \in found : i <= j

\* callsSet with the file overriding the command line
callsSetAlways(v) == TRUE

\* whether setValue calls Value.Set for the Var v it found
callsSet(v) == ~v.flagSet

\* setValue without the check of v.set: a second assignment sets again
setValueAgain(ln, ident, raw, value, vs) ==
    LET v == findName(ident, vs)
        s == ValSet(vs[v], value)
    IN IF v = 0 THEN NoVar(ParseError(ln, ident, raw, errUnknownVar))
       ELSE IF callsSet(vs[v]) /\ s.err # "nil"
           THEN [err |-> ParseError(ln, ident, raw, s.err), v |-> v,
                 called |-> TRUE, p |-> value, val |-> <<>>, mark |-> FALSE]
       ELSE [err |-> NoError, v |-> v, called |-> callsSet(vs[v]), p |-> value,
             val |-> s.val, mark |-> TRUE]

\* (*parser).setValue: called tells whether Value.Set ran with p, val is
\* what it stored, mark whether v.set becomes true
setValue(ln, ident, raw, value, vs) ==
    LET v == findName(ident, vs)
        s == ValSet(vs[v], value)
    IN IF v = 0 THEN NoVar(ParseError(ln, ident, raw, errUnknownVar))
       ELSE IF vs[v].set
           THEN [NoVar(ParseError(ln, ident, raw, errAlreadyDef)) EXCEPT !.v = v]
       ELSE IF callsSet(vs[v]) /\ s.err # "nil"
           THEN [err |-> ParseError(ln, ident, raw, s.err), v |-> v,
                 called |-> TRUE, p |-> value, val |-> <<>>, mark |-> FALSE]
       ELSE [err |-> NoError, v |-> v, called |-> callsSet(vs[v]), p |-> value,
             val |-> s.val, mark |-> TRUE]

\* parseLine looking the identifier up before it reads the value
parseLineLookupFirst(text, ln, vs) ==
    LET l1 == eatSpace(text)
        ident == identRE(l1)
        l2 == eatSpace(From(l1, Len(ident)))
        l3 == eatSpace(Tail(l2))
        plain == plainRE(l3)
        raw == IF plain = <<>> THEN quotedRE(l3) ELSE plain
        unq == Unquote(raw)
        unquoted == IF plain = <<>> THEN unq.str ELSE plain
        l4 == eatSpace(From(l3, Len(raw)))
    IN IF l1 = <<>> \/ l1[1] = "#" THEN NoVar(NoError)
       ELSE IF ident = <<>> \/ l2 = <<>> \/ l2[1] # "="
           THEN NoVar(ParseError(ln, ident, <<>>, errSyntax))
       ELSE IF findName(ident, vs) = 0
           THEN NoVar(ParseError(ln, ident, <<>>, errUnknownVar))
       ELSE IF vs[findName(ident, vs)].set
           THEN NoVar(ParseError(ln, ident, <<>>, errAlreadyDef))
       ELSE IF plain = <<>> /\ ~unq.ok
           THEN NoVar(ParseError(ln, ident, raw, errSyntax))
       ELSE IF Len(l4) # 0 /\ l4[1] # "#"
           THEN NoVar(ParseError(ln, ident, raw, errSyntax))
       ELSE setValue(ln, ident, raw, unquoted, vs)

\* (*parser).parseLine for line number ln
parseLine(text, ln, vs) ==
    LET l1 == eatSpace(text)
        ident == identRE(l1)
        l2 == eatSpace(From(l1, Len(ident)))
        l3 == eatSpace(Tail(l2))
        plain == plainRE(l3)
        raw == IF plain = <<>> THEN quotedRE(l3) ELSE plain
        unq == Unquote(raw)
        unquoted == IF plain = <<>> THEN unq.str ELSE plain
        l4 == eatSpace(From(l3, Len(raw)))
    IN IF l1 = <<>> \/ l1[1] = "#" THEN NoVar(NoError)
       ELSE IF ident = <<>> \/ l2 = <<>> \/ l2[1] # "="
           THEN NoVar(ParseError(ln, ident, <<>>, errSyntax))
       ELSE IF plain = <<>> /\ ~unq.ok
           THEN NoVar(ParseError(ln, ident, raw, errSyntax))
       ELSE IF Len(l4) # 0 /\ l4[1] # "#"
           THEN NoVar(ParseError(ln, ident, raw, errSyntax))
       ELSE setValue(ln, ident, raw, unquoted, vs)

\* notSet with a marker of either origin satisfying the check
notSetEither(v) == v.Required /\ ~v.set /\ ~v.flagSet

\* whether the Var v fails the check Parse makes after the end of the stream
notSet(v) == v.Required /\ ~v.set

\* requiredCheck reporting the last Var that fails the check
requiredCheckLast(vs) ==
    LET missing == {i \in 1..Len(vs) : notSet(vs[i])}
        last == CHOOSE i \in missing : \A j \in missing : i >= j
    IN IF missing = {} THEN NoError
       ELSE ParseError(0, vs[last].Name, <<>>, errReqNotSet)

\* the loop of Parse over the registry after the end of the stream
requiredCheck(vs) ==
    LET missing == {i \in 1..Len(vs) : notSet(vs[i])}
        first == CHOOSE i \in missing : \A j \in missing : i <= j
    IN IF missing = {} THEN NoError
       ELSE ParseError(0, vs[first].Name, <<>>, errReqNotSet)

\* ------------------------------------------------------------------------
\* State
\* ------------------------------------------------------------------------

VARIABLES
    vars,       \* the registry []Var, with the markers set and flagSet
    val,        \* the Go variable behind each Var's Value, as text
    osArgs,     \* os.Args[1:] of the running or last command line call
    Args,       \* the package variable Args
    flavour,    \* doGetOpt's parameter
    kind,       \* doGetOpt's local kind
    this,       \* doGetOpt's local this
    file,       \* the lines of the reader handed to the running or last Parse
    input,      \* the lines Parse has not read yet
    line,       \* parser.line
    call,       \* the entry point running or last run
    pc,         \* "idle", "outer", "inner", "read" or "done"
    err,        \* the error the last call returned
    calls,      \* the calls of Value.Set made by the running or last call
    tried       \* the Vars whose Value.Set a call of Parse has called so far

state == <<vars, val, osArgs, Args, flavour, kind, this, file, input, line,
           call, pc, err, calls, tried>>

\* ------------------------------------------------------------------------
\* Inputs
\* ------------------------------------------------------------------------

\* the arguments a command line is made of
ArgPool ==
    { <<>>, <<"-">>, <<"-", "-">>, <<"p">>, <<"y">>,
      <<"-", "n">>, <<"-", "h">>, <<"-", "n", "h">>, <<"-", "h", "n">>,
      <<"-", "n", "h", "p">>, <<"-", "l">>, <<"-", "l", "n">>,
      <<"-", "k">>, <<"-", "k", "y">>, <<"-", "c">>, <<"-", "x">>,
      <<"-", RuneError>>,
      <<"-", "t">>, <<"+", "t">>, <<"-", "f">>, <<"+", "f">>, <<"+", "h">>,
      <<"+">>, <<"+", "x">>,
      <<"-", "-", "h">>, <<"-", "-", "h", "=", "p">>, <<"-", "-", "h", "=">>,
      <<"-", "-", "t">>, <<"-", "-", "t", "=">>, <<"-", "-", "t", "=", "y">>,
      <<"-", "-", "l">>, <<"-", "-", "l", "=">>, <<"-", "-", "l", "=", "p">>,
      <<"-", "-", "=", "p">>, <<"-", "-", "k", "=", "p">>,
      <<"-", "-", "h", "=", "p", "=">> }

RECURSIVE SeqsUpTo(_, _)
\* the sequences over S of length at most n
SeqsUpTo(S, n) ==
    IF n = 0 THEN {<<>>}
    ELSE LET shorter == SeqsUpTo(S, n - 1)
         IN shorter \cup {Append(s, x) : s \in {t \in shorter : Len(t) = n - 1}, x \in S}

\* the arguments that follow the flags in the command lines of GetOpt's
\* documentation: the first of them is no flag argument and not "--"
Tails ==
    { T \in SeqsUpTo({S_arg0, S_arg1, <<"-">>, <<>>, <<"-", "n">>, <<"-", "-">>}, MaxArgs) :
        T = <<>> \/ T[1] \notin {<<"-", "n">>, <<"-", "-">>} }

\* "-nhparam T", "-nh param T", "-n -h param T" and "-n -h param -- T"
Form1(T) == << <<"-", "n", "h">> \o S_param >> \o T
Form2(T) == << <<"-", "n", "h">>, S_param >> \o T
Form3(T) == << <<"-", "n">>, <<"-", "h">>, S_param >> \o T
Form4(T) == << <<"-", "n">>, <<"-", "h">>, S_param, <<"-", "-">> >> \o T

\* "-t +f -h param arg0 arg1"
X11Line == << <<"-", "t">>, <<"+", "f">>, <<"-", "h">>, S_param, S_arg0, S_arg1 >>

ArgVectors ==
    SeqsUpTo(ArgPool, MaxArgs)
        \cup {Form1(T) : T \in Tails} \cup {Form2(T) : T \in Tails}
        \cup {Form3(T) : T \in Tails} \cup {Form4(T) : T \in Tails}
        \cup {X11Line}

\* ------------------------------------------------------------------------
\* Actions of doGetOpt
\* ------------------------------------------------------------------------

\* doGetOpt returns e
Return(e) ==
    /\ pc' = "done"
    /\ err' = e

\* GetOpt, GetOptLong or GetOptLongOnly is called with os.Args[1:] = argv:
\* Args becomes a copy of it
StartGetOpt(name, fl, argv) ==
    /\ call' = name
    /\ flavour' = fl
    /\ osArgs' = argv
    /\ Args' = argv
    /\ kind' = endArg
    /\ this' = <<>>
    /\ calls' = <<>>
    /\ err' = NoError
    /\ pc' = "outer"
    /\ UNCHANGED <<tried, vars, val, file, input, line>>

\* GetOptEnd taking the argument it stops at out of Args
GetOptEndDrop ==
    /\ pc = "outer"
    /\ \/ Len(Args) = 0 /\ Args' = Args
       \/ /\ Len(Args) > 0
          /\ nextArg(Args[1], flavour).kind = endArg
          /\ Args' = Tail(Args)
    /\ Return(NoError)
    /\ UNCHANGED <<tried, vars, val, osArgs, flavour, kind, this, file, input,
                   line, call, calls>>

\* the outer loop ends: no argument is left, or the next one is no flag
GetOptEnd ==
    /\ pc = "outer"
    /\ \/ Len(Args) = 0
       \/ Len(Args) > 0 /\ nextArg(Args[1], flavour).kind = endArg
    /\ Return(NoError)
    /\ UNCHANGED <<tried, vars, val, osArgs, Args, flavour, kind, this, file, input,
                   line, call, calls>>

\* the outer loop ends at "--", which is removed from Args
GetOptEndSkip ==
    /\ pc = "outer"
    /\ Len(Args) > 0
    /\ nextArg(Args[1], flavour).kind = endArgSkip
    /\ Args' = Tail(Args)
    /\ kind' = endArgSkip
    /\ Return(NoError)
    /\ UNCHANGED <<tried, vars, val, osArgs, flavour, this, file, input, line, call,
                   calls>>

\* the outer loop takes the next argument as a flag argument
GetOptArg ==
    /\ pc = "outer"
    /\ Len(Args) > 0
    /\ LET a == nextArg(Args[1], flavour)
       IN /\ a.kind \notin {endArg, endArgSkip}
          /\ kind' = a.kind
          /\ this' = a.this
          /\ Args' = Tail(Args)
          /\ pc' = IF Len(a.this) > 0 THEN "inner" ELSE "outer"
    /\ UNCHANGED <<tried, vars, val, osArgs, flavour, file, input, line, call, err,
                   calls>>

\* GetOptFlagFail setting flagSet of the Var whose Set returned the error
GetOptFlagFailMarks ==
    /\ pc = "inner"
    /\ LET r == flagStep(this, kind, Args, vars)
       IN /\ r.err # NoError
          /\ this' = r.this
          /\ Args' = r.Args
          /\ calls' = IF r.called THEN Append(calls, [v |-> r.v, p |-> r.p])
                      ELSE calls
          /\ vars' = IF r.called THEN [vars EXCEPT ![r.v].flagSet = TRUE] ELSE vars
          /\ Return(r.err)
    /\ UNCHANGED <<tried, val, osArgs, flavour, kind, file, input, line, call>>

\* one pass of the inner loop that ends the call with an error
GetOptFlagFail ==
    /\ pc = "inner"
    /\ LET r == flagStep(this, kind, Args, vars)
       IN /\ r.err # NoError
          /\ this' = r.this
          /\ Args' = r.Args
          /\ calls' = IF r.called THEN Append(calls, [v |-> r.v, p |-> r.p])
                      ELSE calls
          /\ Return(r.err)
    /\ UNCHANGED <<tried, vars, val, osArgs, flavour, kind, file, input, line, call>>

\* one pass of the inner loop that sets a Var
GetOptFlagSet ==
    /\ pc = "inner"
    /\ LET r == flagStep(this, kind, Args, vars)
       IN /\ r.err = NoError
          /\ this' = r.this
          /\ Args' = r.Args
          /\ calls' = Append(calls, [v |-> r.v, p |-> r.p])
          /\ val' = [val EXCEPT ![r.v] = r.val]
          /\ vars' = [vars EXCEPT ![r.v].flagSet = TRUE]
          /\ pc' = afterSet(vars[r.v], r.this)
    /\ UNCHANGED <<tried, osArgs, flavour, kind, file, input, line, call, err>>

doGetOpt == GetOptEnd \/ GetOptEndSkip \/ GetOptArg \/ GetOptFlagFail \/ GetOptFlagSet

\* ------------------------------------------------------------------------
\* Actions of Parse
\* ------------------------------------------------------------------------

\* what ReadLine returns: a line, the start of a line longer than the
\* reader's buffer, or a read error; at the end of the input, io.EOF
Line(text) == [buf |-> text, ispref |-> FALSE, err |-> "nil"]
LongLine == [buf |-> <<"h">>, ispref |-> TRUE, err |-> "nil"]
ReadError == [buf |-> <<>>, ispref |-> FALSE, err |-> "unexpected EOF"]

\* Parse is called on a reader that yields the lines in
StartParse(in) ==
    /\ call' = "Parse"
    /\ file' = in
    /\ input' = in
    /\ line' = 0
    /\ calls' = <<>>
    /\ err' = NoError
    /\ pc' = "read"
    /\ UNCHANGED <<tried, vars, val, osArgs, Args, flavour, kind, this>>

\* ReadLine returns io.EOF: the loop ends and the registry is checked
ParseEOF ==
    /\ pc = "read"
    /\ input = <<>>
    /\ line' = line + 1
    /\ Return(requiredCheck(vars))
    /\ UNCHANGED <<tried, vars, val, osArgs, Args, flavour, kind, this, file, input,
                   call, calls>>

\* ReadLine fails, or returns the start of a line that is too long
ParseReadFail ==
    /\ pc = "read"
    /\ input # <<>>
    /\ Head(input).err # "nil" \/ Head(input).ispref
    /\ line' = line + 1
    /\ input' = Tail(input)
    /\ Return(IF Head(input).err # "nil"
                  THEN [NoError EXCEPT !.Err = Head(input).err]
              ELSE ParseError(line + 1, <<>>, <<>>, errLineTooLong))
    /\ UNCHANGED <<tried, vars, val, osArgs, Args, flavour, kind, this, file, call,
                   calls>>

\* ParseLineFail going on to the next line after the error
ParseLineSkip ==
    /\ pc = "read"
    /\ input # <<>>
    /\ Head(input).err = "nil" /\ ~Head(input).ispref
    /\ LET r == parseLine(Head(input).buf, line + 1, vars)
       IN /\ r.err # NoError
          /\ calls' = IF r.called THEN Append(calls, [v |-> r.v, p |-> r.p])
                      ELSE calls
          /\ tried' = IF r.called THEN tried \cup {r.v} ELSE tried
          /\ err' = r.err
    /\ line' = line + 1
    /\ input' = Tail(input)
    /\ UNCHANGED <<vars, val, osArgs, Args, flavour, kind, this, file, call, pc>>

\* a line is read and parseLine returns an error
ParseLineFail ==
    /\ pc = "read"
    /\ input # <<>>
    /\ Head(input).err = "nil" /\ ~Head(input).ispref
    /\ LET r == parseLine(Head(input).buf, line + 1, vars)
       IN /\ r.err # NoError
          /\ calls' = IF r.called THEN Append(calls, [v |-> r.v, p |-> r.p])
                      ELSE calls
          /\ tried' = IF r.called THEN tried \cup {r.v} ELSE tried
          /\ Return(r.err)
    /\ line' = line + 1
    /\ input' = Tail(input)
    /\ UNCHANGED <<vars, val, osArgs, Args, flavour, kind, this, file, call>>

\* ParseLineOk leaving v.set as it was
ParseLineOkUnmarked ==
    /\ pc = "read"
    /\ input # <<>>
    /\ Head(input).err = "nil" /\ ~Head(input).ispref
    /\ LET r == parseLine(Head(input).buf, line + 1, vars)
       IN /\ r.err = NoError
          /\ calls' = IF r.called THEN Append(calls, [v |-> r.v, p |-> r.p])
                      ELSE calls
          /\ tried' = IF r.called THEN tried \cup {r.v} ELSE tried
          /\ val' = IF r.called THEN [val EXCEPT ![r.v] = r.val] ELSE val
    /\ line' = line + 1
    /\ input' = Tail(input)
    /\ UNCHANGED <<vars, osArgs, Args, flavour, kind, this, file, call, pc, err>>

\* a line is read and parseLine returns nil
ParseLineOk ==
    /\ pc = "read"
    /\ input # <<>>
    /\ Head(input).err = "nil" /\ ~Head(input).ispref
    /\ LET r == parseLine(Head(input).buf, line + 1, vars)
       IN /\ r.err = NoError
          /\ calls' = IF r.called THEN Append(calls, [v |-> r.v, p |-> r.p])
                      ELSE calls
          /\ tried' = IF r.called THEN tried \cup {r.v} ELSE tried
          /\ val' = IF r.called THEN [val EXCEPT ![r.v] = r.val] ELSE val
          /\ vars' = IF r.mark THEN [vars EXCEPT ![r.v].set = TRUE] ELSE vars
    /\ line' = line + 1
    /\ input' = Tail(input)
    /\ UNCHANGED <<osArgs, Args, flavour, kind, this, file, call, pc, err>>

ParseLoop == ParseEOF \/ ParseReadFail \/ ParseLineFail \/ ParseLineOk

\* name = value
Assign(name, value) == name \o <<" ", "=", " ">> \o value

\* "s"
Quote(s) == <<"\"">> \o s \o <<"\"">>

\* the lines a configuration file is made of
LinePool ==
    { Line(<<>>),
      Line(<<" ", "#", " ", "c">>),
      Line(Assign(<<"h">>, <<"p">>)),
      Line(<<"\t", "h", "=", "q", " ", "#", "c">>),
      Line(Assign(<<"k">>, <<"Y", "e", "s">>)),
      Line(Assign(<<"k">>, <<"p">>)),
      Line(Assign(<<"t">>, <<"o", "n">>)),
      Line(Assign(<<"x">>, <<"p">>)),
      Line(<<"h", " ", "p">>),
      Line(<<"=", " ", "p">>),
      Line(<<"h", " ", "=">>),
      Line(<<"9", "h", " ", "=", " ", "p">>),
      Line(Assign(<<"h">>, <<"p", " ", "q">>)),
      Line(Assign(<<"h">>, Quote(<<"p", " ", "#", "=">>))),
      Line(Assign(<<"h">>, Quote(<<>>))),
      Line(Assign(<<"h">>, Quote(<<"\\", "q">>))),
      Line(Assign(<<"x">>, Quote(<<"p">>) \o <<"q">>)),
      LongLine,
      ReadError }

Files == SeqsUpTo(LinePool, MaxLines)

\* the lines and the command lines of a program that runs both parsers
SharedLines ==
    { Line(Assign(<<"h">>, <<"q">>)),
      Line(Assign(<<"k">>, <<"n", "o">>)),
      Line(Assign(<<"k">>, <<"q">>)),
      Line(Assign(<<"t">>, <<"o", "n">>)),
      Line(Assign(<<"x">>, <<"p">>)),
      Line(<<"h", " ", "p">>),
      LongLine }

SharedFiles == SeqsUpTo(SharedLines, MaxLines)

SharedArgVectors ==
    { << <<"-", "h">>, <<"p">>, <<"-", "-">> >>,
      << <<"-", "k">>, <<"y">> >>,
      << <<"-", "k">>, <<"p">> >>,
      << <<"-", "h">>, <<"p">>, <<"-", "k">>, <<"y">> >>,
      << <<"-", "-", "h", "=", "r">> >>,
      << <<"-", "n">> >>,
      << <<"-", "n">>, <<"-", "k">>, <<"p">> >>,
      << <<"-", "t">> >> }

\* ------------------------------------------------------------------------
\* Specification of one command line call
\* ------------------------------------------------------------------------

InitOpt ==
    /\ vars = Registry(FALSE, FALSE)
    /\ val = InitVal
    /\ osArgs = <<>>
    /\ Args = <<>>
    /\ flavour = short
    /\ kind = endArg
    /\ this = <<>>
    /\ file = <<>>
    /\ input = <<>>
    /\ line = 0
    /\ call = "none"
    /\ pc = "idle"
    /\ err = NoError
    /\ calls = <<>>
    /\ tried = {}

GetOpt == pc = "idle" /\ \E argv \in ArgVectors : StartGetOpt("GetOpt", short, argv)

GetOptLong == pc = "idle" /\ \E argv \in ArgVectors : StartGetOpt("GetOptLong", gnuLong, argv)

GetOptLongOnly == pc = "idle" /\ \E argv \in ArgVectors : StartGetOpt("GetOptLongOnly", xLong, argv)

NextOpt == GetOpt \/ GetOptLong \/ GetOptLongOnly \/ doGetOpt

SpecOpt == InitOpt /\ [][NextOpt]_state

\* ------------------------------------------------------------------------
\* Specification of one call of Parse
\* ------------------------------------------------------------------------

InitConf ==
    /\ \E r2 \in BOOLEAN, r5 \in BOOLEAN : vars = Registry(r2, r5)
    /\ val = InitVal
    /\ osArgs = <<>>
    /\ Args = <<>>
    /\ flavour = short
    /\ kind = endArg
    /\ this = <<>>
    /\ file = <<>>
    /\ input = <<>>
    /\ line = 0
    /\ call = "none"
    /\ pc = "idle"
    /\ err = NoError
    /\ calls = <<>>
    /\ tried = {}

Parse == pc = "idle" /\ \E in \in Files : StartParse(in)

NextConf == Parse \/ ParseLoop

SpecConf == InitConf /\ [][NextConf]_state

\* ------------------------------------------------------------------------
\* Specification of a program that calls the parsers on one registry, in
\* any order and any number of times
\* ------------------------------------------------------------------------

Init == InitConf

\* the caller is done with the results of a call (Args, the error) and goes
\* on: only the registry and the variables behind it live on
Continue ==
    /\ pc = "done"
    /\ pc' = "idle"
    /\ osArgs' = <<>>
    /\ Args' = <<>>
    /\ flavour' = short
    /\ kind' = endArg
    /\ this' = <<>>
    /\ file' = <<>>
    /\ input' = <<>>
    /\ line' = 0
    /\ call' = "none"
    /\ err' = NoError
    /\ calls' = <<>>
    /\ UNCHANGED <<tried, vars, val>>

CallGetOpt == pc = "idle" /\ \E argv \in SharedArgVectors : StartGetOpt("GetOpt", short, argv)

CallGetOptLong == pc = "idle" /\ \E argv \in SharedArgVectors : StartGetOpt("GetOptLong", gnuLong, argv)

CallGetOptLongOnly == pc = "idle" /\ \E argv \in SharedArgVectors : StartGetOpt("GetOptLongOnly", xLong, argv)

CallParse == pc = "idle" /\ \E in \in SharedFiles : StartParse(in)

Next ==
    \/ CallGetOpt \/ CallGetOptLong \/ CallGetOptLongOnly \/ CallParse
    \/ doGetOpt \/ ParseLoop \/ Continue

Spec == Init /\ [][Next]_state

\* ------------------------------------------------------------------------
\* Specification of one call of Parse on a one-line file that assigns a
\* quoted value to h
\* ------------------------------------------------------------------------

\* what a quoted value is written with: characters that stand for
\* themselves, a tab, a quote, a lone backslash, and escapes, well-formed,
\* out of range or cut short
Pieces ==
    { <<"p">>, <<" ">>, <<"#">>, <<"\t">>, <<"\"">>, <<"\\">>, <<"U+233">>,
      <<"\\", "n">>, <<"\\", "\"">>, <<"\\", "\\">>, <<"\\", "q">>, <<"\\", "'">>,
      <<"\\", "1", "0", "1">>, <<"\\", "4", "0", "0">>, <<"\\", "1", "8">>,
      <<"\\", "x", "4", "1">>, <<"\\", "x", "g", "1">>,
      <<"\\", "u", "0", "0", "4", "1">>, <<"\\", "u", "d", "8", "0", "0">>,
      <<"\\", "U", "0", "0", "0", "0", "0", "0", "4", "1">>,
      <<"\\", "U", "0", "0", "1", "1", "0", "0", "0", "0">> }

RECURSIVE Flatten(_)
\* the concatenation of a sequence of strings
Flatten(ss) == IF ss = <<>> THEN <<>> ELSE Head(ss) \o Flatten(Tail(ss))

\* the texts written between the quotes
QuotedBodies == {Flatten(ps) : ps \in SeqsUpTo(Pieces, MaxPieces)}

\* the characters of the strings to be written as quoted values
CharPool ==
    {"p", " ", "#", "=", "\"", "\\", "'", "\t", "U+0", "U+233", "byte 255"}

Strings == SeqsUpTo(CharPool, MaxChars)

\* a character as the documented escapes write it between quotes: a quote
\* and a backslash with a backslash before them, a control character and a
\* byte that is no UTF-8 text as an escape, any other character as itself
EncodeChar(c) ==
    CASE c = "\"" -> <<"\\", "\"">>
      [] c = "\\" -> <<"\\", "\\">>
      [] c = "\t" -> <<"\\", "t">>
      [] c = "U+0" -> <<"\\", "0", "0", "0">>
      [] c = "byte 255" -> <<"\\", "x", "f", "f">>
      [] OTHER -> <<c>>

RECURSIVE Encode(_)
Encode(s) == IF s = <<>> THEN <<>> ELSE EncodeChar(Head(s)) \o Encode(Tail(s))

\* the encoding of every string of Strings
EncodingOf == [s \in Strings |-> Encode(s)]

\* the one-line file  h = "body"
QuotedFile(body) == << Line(Assign(<<"h">>, Quote(body))) >>

ParseQuoted == pc = "idle" /\ \E body \in QuotedBodies : StartParse(QuotedFile(body))

ParseEncoded == pc = "idle" /\ \E s \in Strings : StartParse(QuotedFile(EncodingOf[s]))

NextQuoted == ParseQuoted \/ ParseEncoded \/ ParseEOF \/ ParseLineFail \/ ParseLineOk

SpecQuoted == InitOpt /\ [][NextQuoted]_state

\* ------------------------------------------------------------------------
\* Properties
\* ------------------------------------------------------------------------

\* a call of Parse has returned
ParseDone == pc = "done" /\ call = "Parse"

\* a command line call has returned
GetOptDone == pc = "done" /\ call \in {"GetOpt", "GetOptLong", "GetOptLongOnly"}

\* the values written in the well-formed lines, as they appear in the file
FileValues ==
    { <<"p">>, <<"q">>, <<"o", "n">>, <<"n", "o">>, <<"Y", "e", "s">>,
      Quote(<<"p", " ", "#", "=">>), Quote(<<>>) }

\* the line l is a well-formed assignment to the name of the Var i
AssignsTo(l, i) ==
    /\ l.err = "nil"
    /\ ~l.ispref
    /\ vars[i].Name # <<>>
    /\ \E v \in FileValues :
          l.buf \in { Assign(vars[i].Name, v),
                      <<"\t">> \o vars[i].Name \o <<"=">> \o v \o <<" ", "#", "c">> }

\* the Vars that are required and not marked set from the file
Missing == {i \in DOMAIN vars : vars[i].Required /\ ~vars[i].set}

\* the Vars that are required and carry no marker of either origin
Unassigned ==
    {i \in DOMAIN vars : vars[i].Required /\ ~vars[i].set /\ ~vars[i].flagSet}

\* the least element of a non-empty set of numbers
First(S) == CHOOSE i \in S : \A j \in S : i <= j

\* C1: when Parse reads a well-formed assignment to a Var that a command
\* line parser has set and the file has not yet assigned, the line returns
\* no error, Value.Set is not called, the value the command line gave stays,
\* and the Var is marked set from the file.
C1_CommandLinePrecedence ==
    [][\A i \in DOMAIN vars :
          (/\ pc = "read"
           /\ input # <<>>
           /\ AssignsTo(Head(input), i)
           /\ vars[i].flagSet
           /\ ~vars[i].set)
          => (/\ pc' = "read"
              /\ err' = NoError
              /\ calls' = calls
              /\ val' = val
              /\ vars'[i].set
              /\ vars'[i].flagSet)]_state

\* C1 witness: Parse has read "h = q" as its first line after a command
\* line set h to "p": no call of Set, h still "p", h marked set.
C1_Witness ==
    /\ call = "Parse"
    /\ pc = "read"
    /\ line = 1
    /\ file[1] = Line(Assign(<<"h">>, <<"q">>))
    /\ vars[2].flagSet
    /\ vars[2].set
    /\ val[2] = <<"p">>
    /\ calls = <<>>

\* C2 as amended: Parse returns "required but not set" only for a Var that
\* is Required and not marked set from the file, whatever its command line
\* marker, and it returns success only if every Required Var is marked set
\* from the file.
C2_RequiredNeedsFileMarker ==
    ParseDone =>
        /\ err.Err = errReqNotSet =>
              \E i \in Missing : vars[i].Name = err.Ident
        /\ err = NoError => Missing = {}

\* C2 witness: Parse failed with "required but not set" for a Var that the
\* command line had set.
C2_Witness ==
    /\ ParseDone
    /\ err.Err = errReqNotSet
    /\ \E i \in DOMAIN vars :
          vars[i].Name = err.Ident /\ vars[i].flagSet /\ ~vars[i].set

\* C2 as stated: Parse returns "required but not set" only for a Required
\* Var that carries no marker of either origin, so a Required Var set on the
\* command line and absent from the file passes the check.
C2_EitherMarkerSatisfies ==
    (ParseDone /\ err.Err = errReqNotSet) =>
        \E i \in Unassigned : vars[i].Name = err.Ident

\* C3 as amended: the "required but not set" error is returned only after
\* every line was read without error, it carries line 0 and the name of the
\* first Var in registry order that is Required and not marked set from the
\* file (set on the command line or not); it is returned whenever such a Var
\* exists at the end of the stream; and when a line fails, that line's error
\* is returned instead, with the line's number.
C3_RequiredAfterAllLines ==
    ParseDone =>
        /\ err.Err = errReqNotSet =>
              /\ input = <<>>
              /\ line = Len(file) + 1
              /\ err.Line = 0
              /\ Missing # {}
              /\ err.Ident = vars[First(Missing)].Name
        /\ (line = Len(file) + 1 /\ Missing # {}) => err.Err = errReqNotSet
        /\ line <= Len(file) =>
              /\ err.Err \in {errSyntax, errUnknownVar, errAlreadyDef, errLineTooLong}
              /\ err.Line = line
        /\ (\E k \in DOMAIN file :
                file[k] \in {Line(Assign(<<"x">>, <<"p">>)), Line(<<"h", " ", "p">>), LongLine})
              => /\ line <= Len(file)
                 /\ err.Err # errReqNotSet

\* C3 witness: two Required Vars, the file assigns the first one only, and
\* Parse names the second one after reading the whole file.
C3_Witness ==
    /\ ParseDone
    /\ vars[2].Required
    /\ vars[2].set
    /\ vars[5].Required
    /\ Len(file) = 2
    /\ line = 3
    /\ err.Err = errReqNotSet
    /\ err.Ident = <<"k">>

\* C3 as stated: if some Var is Required and assigned neither in the file
\* nor on the command line, Parse returns the error of a failing line, or,
\* after every line was read, "required but not set" with the name of the
\* first such Var in registry order.
C3_FirstUnassignedAnywhere ==
    (ParseDone /\ Unassigned # {}) =>
        \/ line <= Len(file) /\ err.Err # errReqNotSet
        \/ /\ line = Len(file) + 1
           /\ err.Err = errReqNotSet
           /\ err.Ident = vars[First(Unassigned)].Name

\* C4: when Parse reads a well-formed assignment to a Var the file has
\* already assigned, it returns "already defined" with that line's number,
\* Value.Set is not called again, and the value and the markers stay.
C4_AlreadyDefined ==
    [][\A i \in DOMAIN vars :
          (/\ pc = "read"
           /\ input # <<>>
           /\ AssignsTo(Head(input), i)
           /\ vars[i].set)
          => (/\ pc' = "done"
              /\ err'.Err = errAlreadyDef
              /\ err'.Line = line + 1
              /\ err'.Ident = vars[i].Name
              /\ calls' = calls
              /\ val' = val
              /\ vars' = vars)]_state

\* C4 witness: the second line assigned h again; Set ran once, with the
\* first line's value, which h still holds.
C4_Witness ==
    /\ ParseDone
    /\ err.Err = errAlreadyDef
    /\ err.Line = 2
    /\ err.Ident = <<"h">>
    /\ calls = << [v |-> 2, p |-> <<"p">>] >>
    /\ val[2] = <<"p">>
    /\ vars[2].set

\* Value.Set of a LineArg Var has been called in the running command line call
LineArgSet == \E k \in DOMAIN calls : vars[calls[k].v].Kind = LineArg

\* C5 as stated: once Value.Set of a LineArg Var has been called, the
\* command line call returns at once: no further argument is taken from
\* Args and no further Var is set.
C5_LineArgStopsProcessing ==
    [][(pc \in {"outer", "inner"} /\ LineArgSet)
          => (/\ pc' = "done"
              /\ err' = NoError
              /\ Args' = Args
              /\ calls' = calls)]_state

\* the four command lines of GetOpt's documentation with the tail T
Forms(T) == {Form1(T), Form2(T), Form3(T), Form4(T)}

\* C6: GetOpt on "-nhparam T", "-nh param T", "-n -h param T" and
\* "-n -h param -- T" returns nil after the same calls of Set, n with "true"
\* and then h with "param", and leaves Args = T, for every tail T whose
\* first argument is no flag argument.
C6_ClusterForms ==
    \A T \in Tails :
        (pc = "done" /\ call = "GetOpt" /\ osArgs \in Forms(T))
        => (/\ err = NoError
            /\ calls = << [v |-> 1, p |-> S_true], [v |-> 2, p |-> S_param] >>
            /\ val[1] = S_true
            /\ val[2] = S_param
            /\ Args = T)

\* C6 witness: GetOpt has returned from "-n -h param -- arg0 arg1".
C6_Witness ==
    /\ pc = "done"
    /\ call = "GetOpt"
    /\ osArgs = Form4(<<S_arg0, S_arg1>>)
    /\ Args = <<S_arg0, S_arg1>>
    /\ Len(calls) = 2

\* C7: in a cluster of short flags a HasArg flag calls Set with the rest of
\* the cluster if that is not empty, else with the next argument, whatever
\* it is, which leaves Args; with no argument left the call returns "option
\* requires an argument" without calling Set. The cluster is never resumed.
C7_HasArgValue ==
    [][\A i \in DOMAIN vars :
          (/\ pc = "inner"
           /\ kind = shortFlag
           /\ vars[i].Flag = Head(this)
           /\ vars[i].Kind = HasArg)
          => (/\ pc' # "inner"
              /\ IF Tail(this) # <<>>
                     THEN /\ calls' = Append(calls, [v |-> i, p |-> Tail(this)])
                          /\ Args' = Args
                 ELSE IF Args # <<>>
                     THEN /\ calls' = Append(calls, [v |-> i, p |-> Head(Args)])
                          /\ Args' = Tail(Args)
                 ELSE /\ pc' = "done"
                      /\ err'.Err = errNoArg
                      /\ calls' = calls
                      /\ Args' = Args)]_state

\* C7 witness: "-h -n" has set h to "-n".
C7_Witness ==
    /\ pc = "done"
    /\ call = "GetOpt"
    /\ osArgs = << <<"-", "h">>, <<"-", "n">> >>
    /\ calls = << [v |-> 2, p |-> <<"-", "n">>] >>
    /\ val[2] = <<"-", "n">>
    /\ Args = <<>>

\* what a HasArg Var i of type StringValue and the call are left with once
\* Set was called with V
Settled(i, V) ==
    vars[i].Val = "StringValue"
        => (/\ val' = [val EXCEPT ![i] = V]
            /\ vars'[i].flagSet
            /\ err' = NoError
            /\ pc' = "outer")

\* C8: in GetOptLong, for a HasArg Var named N, "--N=V" calls Set with V and
\* takes no argument from Args, also for an empty V, and "--N" calls Set
\* with the next argument and takes it from Args; both leave the same value.
C8_LongValueForms ==
    [][\A i \in DOMAIN vars :
          (/\ pc = "inner"
           /\ kind = gnuLongFlag
           /\ vars[i].Kind = HasArg
           /\ vars[i].Name # <<>>)
          => LET N == vars[i].Name
                 V == From(this, Len(N) + 1)
             IN /\ (Len(this) > Len(N) /\ UpTo(this, Len(N) + 1) = N \o <<"=">>)
                       => (/\ calls' = Append(calls, [v |-> i, p |-> V])
                           /\ Args' = Args
                           /\ Settled(i, V))
                /\ (this = N /\ Args # <<>>)
                       => (/\ calls' = Append(calls, [v |-> i, p |-> Head(Args)])
                           /\ Args' = Tail(Args)
                           /\ Settled(i, Head(Args)))]_state

\* C8 witness: "--h= p" has set h to the empty string and left "p" in Args.
C8_Witness ==
    /\ pc = "done"
    /\ call = "GetOptLong"
    /\ osArgs = << <<"-", "-", "h", "=">>, <<"p">> >>
    /\ calls = << [v |-> 2, p |-> <<>>] >>
    /\ val[2] = <<>>
    /\ Args = << <<"p">> >>

\* C9 as stated: GetOptLong on a first argument "--N=..." where N names a
\* NoArg or LineArg Var returns "junk at end of option" without calling Set,
\* whatever follows the "=", the empty text included.
C9_EqualsFormOnlyForHasArg ==
    \A i \in DOMAIN vars :
        (/\ pc = "done"
         /\ call = "GetOptLong"
         /\ vars[i].Kind \in {NoArg, LineArg}
         /\ vars[i].Name # <<>>
         /\ osArgs # <<>>
         /\ Len(osArgs[1]) >= Len(vars[i].Name) + 3
         /\ UpTo(osArgs[1], Len(vars[i].Name) + 3)
                = <<"-", "-">> \o vars[i].Name \o <<"=">>)
        => (/\ err.Err = errEndJunk
            /\ calls = <<>>)

\* one pass of GetOptLongOnly over an argument that names the Var i
X11Flag(i) ==
    CASE kind = longFlag /\ vars[i].Kind = NoArg ->
            /\ calls' = Append(calls, [v |-> i, p |-> S_true])
            /\ Args' = Args
      [] kind = falseFlag /\ vars[i].Kind = NoArg ->
            /\ calls' = Append(calls, [v |-> i, p |-> S_false])
            /\ Args' = Args
      [] kind = longFlag /\ vars[i].Kind = HasArg /\ Args # <<>> ->
            /\ calls' = Append(calls, [v |-> i, p |-> Head(Args)])
            /\ Args' = Tail(Args)
      [] kind = falseFlag /\ vars[i].Kind # NoArg ->
            /\ pc' = "done"
            /\ err'.Err = errIllOpt
            /\ calls' = calls
      [] OTHER -> TRUE

\* C10: in GetOptLongOnly the whole text after the leading "-" or "+" is one
\* long name; "-name" calls Set of a NoArg Var with "true" and of a HasArg
\* Var with the next argument, "+name" calls Set of a NoArg Var with "false"
\* and returns "illegal option" without a call for any other Var; and
\* "-t +f -h param arg0 arg1" sets t, f and h and leaves "arg0 arg1".
C10_LongOnly ==
    /\ [][(flavour = xLong /\ pc = "outer" /\ pc' = "inner")
             => (/\ this' = Tail(Head(Args))
                 /\ kind' = IF Head(Head(Args)) = "+" THEN falseFlag ELSE longFlag)]_state
    /\ [][(flavour = xLong /\ pc = "inner")
             => (/\ pc' # "inner"
                 /\ \A i \in DOMAIN vars : this = vars[i].Name => X11Flag(i))]_state
    /\ []((pc = "done" /\ call = "GetOptLongOnly" /\ osArgs = X11Line)
             => (/\ err = NoError
                 /\ calls = << [v |-> 1, p |-> S_true], [v |-> 3, p |-> S_false],
                               [v |-> 2, p |-> S_param] >>
                 /\ val[1] = S_true
                 /\ val[3] = S_false
                 /\ val[2] = S_param
                 /\ Args = <<S_arg0, S_arg1>>))

\* C10 witness: GetOptLongOnly has returned from "-t +f -h param arg0 arg1".
C10_Witness ==
    /\ pc = "done"
    /\ call = "GetOptLongOnly"
    /\ osArgs = X11Line
    /\ val[1] = S_true
    /\ val[2] = S_param
    /\ Args = <<S_arg0, S_arg1>>

\* the argument a is one at which GetOpt stops without taking it
NonFlag(a) == a = <<>> \/ a = <<"-">> \/ Head(a) # "-"

\* t is what is left of s after some of its first elements were taken
IsSuffix(t, s) == Len(t) <= Len(s) /\ t = From(s, Len(s) - Len(t))

\* C11: GetOpt stops at "--", which it removes from Args, and at an argument
\* that is empty, is "-" or does not begin with "-", which it leaves at the
\* head of Args; both return nil without a call of Set, and what is left in
\* Args then is a tail of the command line that was looked at no further.
C11_StopRules ==
    /\ [][(pc = "outer" /\ flavour = short /\ Args # <<>>)
             => IF Head(Args) = <<"-", "-">>
                    THEN /\ pc' = "done"
                         /\ err' = NoError
                         /\ Args' = Tail(Args)
                         /\ calls' = calls
                ELSE IF NonFlag(Head(Args))
                    THEN /\ pc' = "done"
                         /\ err' = NoError
                         /\ Args' = Args
                         /\ calls' = calls
                ELSE /\ pc' \in {"inner", "outer"}
                     /\ Args' = Tail(Args)]_state
    /\ []((pc = "done" /\ call = "GetOpt" /\ err = NoError)
             => /\ IsSuffix(Args, osArgs)
                /\ Args # <<>> => (kind = endArgSkip \/ NonFlag(Head(Args))))

\* C11 witness: GetOpt has stopped at "--" and left "-n" in Args unparsed.
C11_Witness ==
    /\ pc = "done"
    /\ call = "GetOpt"
    /\ osArgs = << <<"-", "-">>, <<"-", "n">> >>
    /\ Args = << <<"-", "n">> >>
    /\ calls = <<>>
    /\ ~vars[1].flagSet

\* the name of the long flag in this: all of it, or what precedes the "="
\* in GetOptLong
LongPart(t, k) ==
    IF k = gnuLongFlag /\ Index(t, "=") # -1 THEN UpTo(t, Index(t, "=")) ELSE t

\* the flag at the head of this, a decodable character or a long name,
\* matches no Var
UnknownFlag ==
    IF kind = shortFlag
        THEN Head(this) # RuneError /\ \A i \in DOMAIN vars : vars[i].Flag # Head(this)
    ELSE \A i \in DOMAIN vars : vars[i].Name # LongPart(this, kind)

\* C12: in every dialect a flag character or long name that matches no Var
\* ends the call with "illegal option": Set is not called, no value and no
\* marker changes, and the call does not go on to the rest of the cluster
\* or to the next argument.  (An undecodable flag character is refused
\* before the lookup, with "syntax error".)
C12_UnknownFlagEnds ==
    [][(pc = "inner" /\ UnknownFlag)
          => (/\ pc' = "done"
              /\ err'.Err = errIllOpt
              /\ calls' = calls
              /\ val' = val
              /\ vars' = vars
              /\ Args' = Args)]_state

\* C12 witness: "-x -n" has ended with "illegal option" and "-n" was not
\* looked at.
C12_Witness ==
    /\ pc = "done"
    /\ osArgs = << <<"-", "x">>, <<"-", "n">> >>
    /\ err.Err = errIllOpt
    /\ calls = <<>>
    /\ Args = << <<"-", "n">> >>
    /\ ~vars[1].flagSet

\* the last call of Set for the Var i made by the running call
LastCall(i) ==
    LET ks == {k \in DOMAIN calls : calls[k].v = i}
    IN calls[CHOOSE k \in ks : \A j \in ks : j <= k]

\* C13: a flag given again in one command line call is not refused: the
\* pass that finds a Var whose flagSet is true behaves as it would for one
\* whose flagSet is false, no "option already set" error is ever returned,
\* and after a call that returned nil a StringValue Var holds the parameter
\* of its last call of Set.
C13_RepeatedFlag ==
    /\ [][(pc = "inner" /\ \E i \in DOMAIN vars : vars[i].flagSet)
             => LET fresh == [i \in DOMAIN vars |-> [vars[i] EXCEPT !.flagSet = FALSE]]
                    r == flagStep(this, kind, Args, fresh)
                IN /\ err' = r.err
                   /\ Args' = r.Args
                   /\ r.called => calls' = Append(calls, [v |-> r.v, p |-> r.p])]_state
    /\ [](err.Err # "option already set")
    /\ []((pc = "done" /\ call # "Parse" /\ err = NoError)
             => \A i \in DOMAIN vars :
                   (vars[i].Val = "StringValue" /\ \E k \in DOMAIN calls : calls[k].v = i)
                   => val[i] = LastCall(i).p)

\* C13 witness: "-hn -nhp" has set h twice and h holds "p".
C13_Witness ==
    /\ pc = "done"
    /\ call = "GetOpt"
    /\ osArgs = << <<"-", "h", "n">>, <<"-", "n", "h", "p">> >>
    /\ err = NoError
    /\ calls = << [v |-> 2, p |-> <<"n">>], [v |-> 1, p |-> S_true],
                  [v |-> 2, p |-> <<"p">>] >>
    /\ val[2] = <<"p">>

\* the text C14 expects after "Err -- " for an error returned by the pass
\* over this: the parameter Set refused or the junk after the flag if that
\* is not empty, else the long name, else the flag character
ExpectedToken ==
    LET long == IF kind = shortFlag THEN <<>> ELSE LongPart(this, kind)
        rest == IF kind = shortFlag THEN Tail(this)
                ELSE IF kind = gnuLongFlag /\ Index(this, "=") # -1
                    THEN From(this, Index(this, "=") + 1)
                ELSE <<>>
        value == IF Len(calls') > Len(calls)
                     THEN IF vars[calls'[Len(calls')].v].Kind = NoArg THEN <<>>
                          ELSE calls'[Len(calls')].p
                 ELSE IF err'.Err = errEndJunk THEN rest
                 ELSE <<>>
    IN IF value # <<>> THEN value
       ELSE IF long # <<>> THEN long
       ELSE <<Head(this)>>

\* C14 as stated: every error of a command line call renders as
\* "Err -- token" where the token is the offending value if that is not
\* empty, else the long name of the flag, else the flag character.
C14_ErrorToken ==
    [][(pc = "inner" /\ pc' = "done" /\ err' # NoError)
          => FlagErrorToken(err') = ExpectedToken]_state

\* the errors Parse can return for a line that fails wherever it stands in
\* a file: a syntax error, an unknown variable, a value the setter refuses
\* (or a Var already defined), a line longer than the reader's buffer; none
\* for any other line
LineErrors(l) ==
    CASE l \in { Line(<<"h", " ", "p">>), Line(<<"=", " ", "p">>),
                 Line(<<"h", " ", "=">>),
                 Line(<<"9", "h", " ", "=", " ", "p">>),
                 Line(Assign(<<"h">>, <<"p", " ", "q">>)),
                 Line(Assign(<<"h">>, Quote(<<"\\", "q">>))),
                 Line(Assign(<<"x">>, Quote(<<"p">>) \o <<"q">>)) } -> {errSyntax}
      [] l = Line(Assign(<<"x">>, <<"p">>)) -> {errUnknownVar}
      [] l = Line(Assign(<<"k">>, <<"p">>)) -> {errSyntax, errAlreadyDef}
      [] l = LongLine -> {errLineTooLong}
      [] OTHER -> {}

\* C15: Parse returns at the first line that fails: the error carries that
\* line's number, the lines after it stay unread, every line before it was
\* read without error, no call of Set follows, and what the calls of Set
\* before it stored stays.
C15_FirstErrorStops ==
    /\ [][(pc = "read" /\ input # <<>> /\ err' # NoError)
             => (/\ pc' = "done"
                 /\ line' = line + 1
                 /\ input' = Tail(input)
                 /\ val' = val
                 /\ vars' = vars
                 /\ err'.Err # Head(input).err => err'.Line = line + 1)]_state
    /\ []((pc = "done" /\ call = "Parse")
             => /\ line <= Len(file) => (err # NoError /\ input = From(file, line))
                /\ \A k \in DOMAIN file :
                      LineErrors(file[k]) # {}
                      => (line <= k /\ (line = k => err.Err \in LineErrors(file[k])))
                /\ \A k \in DOMAIN calls :
                      LET c == calls[k]
                          s == ValSet(vars[c.v], c.p)
                      IN IF s.err = "nil" THEN val[c.v] = s.val
                         ELSE k = Len(calls) /\ err.Err = s.err)

\* C15 witness: "h = p" was applied, the second line "x = p" failed with
\* "unknown variable" at line 2.
C15_Witness ==
    /\ pc = "done"
    /\ call = "Parse"
    /\ file = << Line(Assign(<<"h">>, <<"p">>)), Line(Assign(<<"x">>, <<"p">>)) >>
    /\ err.Err = errUnknownVar
    /\ err.Line = 2
    /\ val[2] = <<"p">>
    /\ vars[2].set
    /\ calls = << [v |-> 2, p |-> <<"p">>] >>

\* C16: GetOpt finds a Var only by its Flag, so that a Var with a Name and
\* no Flag is never set by it, and GetOptLongOnly finds a Var only by its
\* Name, so that a Var with a Flag and an empty Name is never set by it.
C16_LookupKeys ==
    /\ [][(pc = "inner" /\ Len(calls') > Len(calls))
             => LET i == calls'[Len(calls')].v
                IN /\ flavour = short => vars[i].Flag = Head(this)
                   /\ flavour = xLong => vars[i].Name = this]_state
    /\ [](\A i \in DOMAIN vars :
             /\ (call = "GetOpt" /\ vars[i].Flag = "")
                   => (~vars[i].flagSet /\ \A k \in DOMAIN calls : calls[k].v # i)
             /\ (call = "GetOptLongOnly" /\ vars[i].Name = <<>>)
                   => (~vars[i].flagSet /\ \A k \in DOMAIN calls : calls[k].v # i))

\* C16 witness: GetOptLongOnly has refused "-c", the Flag of a Var with an
\* empty Name, and left its value "p" in Args.
C16_Witness ==
    /\ pc = "done"
    /\ call = "GetOptLongOnly"
    /\ osArgs = << <<"-", "c">>, <<"p">> >>
    /\ err.Err = errIllOpt
    /\ calls = <<>>
    /\ Args = << <<"p">> >>
    /\ vars[6].Flag = "c"
    /\ ~vars[6].flagSet

\* what is written between the quotes of the one line of a file  h = "..."
Body == SubSeq(file[1].buf, 6, Len(file[1].buf) - 1)

\* every character of s is a hexadecimal digit, an octal digit
IsHex(s) == \A i \in DOMAIN s : Unhex(s[i]) >= 0
IsOct(s) == \A i \in DOMAIN s : Unhex(s[i]) \in 0..7

\* the element of a quoted value at the head of t: n is its length, 0 if
\* there is none, and c the character it denotes.  An element is a
\* character other than the quote and the backslash, or a backslash and one
\* of a b f n r t v " \, three octal digits, x and 2, u and 4 or U and 8
\* hexadecimal digits.  With strict, a control character is no element, nor
\* is an octal escape above \377 or a \u or \U escape that is no code point.
Element(t, strict) ==
    LET none == [n |-> 0, c |-> ""]
        e == t[2]
        letters == << "a", "b", "f", "n", "r", "t", "v" >>
        codes == << 7, 8, 12, 10, 13, 9, 11 >>
        digits(k) == SubSeq(t, 3, 2 + k)
        codePoint(k) ==
            IF strict /\ (HexValue(digits(k)) > 1114111 \/ HexValue(digits(k)) \in 55296..57343)
                THEN none
            ELSE [n |-> 2 + k, c |-> Chr(HexValue(digits(k)))]
    IN IF t[1] = "\"" THEN none
       ELSE IF t[1] # "\\" THEN
           IF strict /\ t[1] \in Control THEN none ELSE [n |-> 1, c |-> t[1]]
       ELSE IF Len(t) < 2 THEN none
       ELSE IF e \in Range(letters) THEN [n |-> 2, c |-> Chr(codes[Pos(letters, e)])]
       ELSE IF e \in {"\"", "\\"} THEN [n |-> 2, c |-> e]
       ELSE IF Len(t) >= 4 /\ IsOct(SubSeq(t, 2, 4)) THEN
           IF strict /\ OctValue(SubSeq(t, 2, 4)) > 255 THEN none
           ELSE [n |-> 4, c |-> Byte(OctValue(SubSeq(t, 2, 4)) % 256)]
       ELSE IF e = "x" /\ Len(t) >= 4 /\ IsHex(digits(2))
           THEN [n |-> 4, c |-> Byte(HexValue(digits(2)))]
       ELSE IF e = "u" /\ Len(t) >= 6 /\ IsHex(digits(4)) THEN codePoint(4)
       ELSE IF e = "U" /\ Len(t) >= 10 /\ IsHex(digits(8)) THEN codePoint(8)
       ELSE none

RECURSIVE Scan(_, _)
\* the quoted value whose text after the opening quote is t: ok tells
\* whether it is a run of elements closed by a quote, str is the text it
\* denotes and rest what follows the closing quote
Scan(t, strict) ==
    LET bad == [ok |-> FALSE, str |-> <<>>, rest |-> <<>>]
        el == Element(t, strict)
        more == Scan(From(t, el.n), strict)
    IN IF t = <<>> THEN bad
       ELSE IF t[1] = "\"" THEN [ok |-> TRUE, str |-> <<>>, rest |-> Tail(t)]
       ELSE IF el.n = 0 \/ ~more.ok THEN bad
       ELSE [more EXCEPT !.str = <<el.c>> \o more.str]

\* the quoted value of the line  h = "...  and whether the line is accepted:
\* the value is well-formed and only space or a comment follows it
Quoted(strict) ==
    LET q == Scan(From(file[1].buf, 5), strict)
        after == eatSpace(q.rest)
    IN [q EXCEPT !.ok = q.ok /\ (after = <<>> \/ Head(after) = "#")]

\* C17: for every string s, the empty one and those holding "#", "=", a
\* space, a quote or a backslash included, Parse of the line
\* h = "<s written with the documented escapes>"  returns nil after one
\* call of Set, with exactly s, and h holds s.  (Encode is one-to-one, so
\* the s a line was written from is the one whose encoding is its body.)
C17_QuotedRoundTrip ==
    (pc = "done" /\ call = "Parse")
    => LET s == Quoted(TRUE).str
       IN Encode(s) = Body
          => (/\ err = NoError
              /\ calls = << [v |-> 2, p |-> s] >>
              /\ val[2] = s
              /\ vars[2].set)

\* C17 witness: the string of a quote and a backslash, written \"\\, has
\* come back as it was.
C17_Witness ==
    /\ pc = "done"
    /\ call = "Parse"
    /\ Body = Encode(<<"\"", "\\">>)
    /\ Body = <<"\\", "\"", "\\", "\\">>
    /\ err = NoError
    /\ val[2] = <<"\"", "\\">>

\* C18 as amended: a quoted value is accepted exactly when it is a run,
\* closed by a quote, of characters other than the quote, the backslash and
\* the control characters, and of the escapes \a \b \f \n \r \t \v \" \\,
\* three octal digits up to \377, \x and 2, \u and 4, \U and 8 hexadecimal
\* digits that name a code point other than a surrogate; such a line
\* returns nil after calling Set with the text denoted, and any other
\* returns "syntax error" without a call of Set.
C18_QuotedGrammar ==
    (pc = "done" /\ call = "Parse")
    => IF Quoted(TRUE).ok
           THEN /\ err = NoError
                /\ calls = << [v |-> 2, p |-> Quoted(TRUE).str] >>
                /\ val[2] = Quoted(TRUE).str
       ELSE /\ err.Err = errSyntax
            /\ err.Line = 1
            /\ calls = <<>>
            /\ val[2] = S_default

\* C18 witness: the octal escape \400 was refused with "syntax error".
C18_Witness ==
    /\ pc = "done"
    /\ call = "Parse"
    /\ Body = <<"\\", "4", "0", "0">>
    /\ err.Err = errSyntax
    /\ calls = <<>>

\* C18 as stated: a quoted value is accepted exactly when it is a run,
\* closed by a quote, of characters other than the quote and the backslash
\* and of the escapes \a \b \f \n \r \t \v \" \\, three octal digits, \x and
\* 2, \u and 4, \U and 8 hexadecimal digits, and any other is a syntax error.
C18_AnyCharacterAnyDigits ==
    (pc = "done" /\ call = "Parse")
    => (Quoted(FALSE).ok <=> err = NoError)

\* C19: a command line parser that runs after Parse calls Set for a Var the
\* file has set as it would for one the file has not set, and the Var then
\* holds the command line's value; Parse never changes the value of a Var
\* whose flagSet is true, and flagSet stays true: so, in whatever order the
\* parsers ran, a Var given on a command line holds the value its last
\* successful call of Set from a command line stored.
C19_CommandLineWinsEitherOrder ==
    /\ [][(pc = "inner" /\ \E i \in DOMAIN vars : vars[i].set)
             => LET unset == [i \in DOMAIN vars |-> [vars[i] EXCEPT !.set = FALSE]]
                    r == flagStep(this, kind, Args, unset)
                IN /\ err' = r.err
                   /\ r.called => calls' = Append(calls, [v |-> r.v, p |-> r.p])
                   /\ (r.called /\ r.err = NoError)
                         => (/\ val'[r.v] = r.val
                             /\ vars[r.v].Val = "StringValue" => val'[r.v] = r.p
                             /\ vars'[r.v].flagSet
                             /\ vars'[r.v].set = vars[r.v].set)]_state
    /\ [][\A i \in DOMAIN vars :
             vars[i].flagSet
             => (/\ vars'[i].flagSet
                 /\ pc \in {"read", "idle", "done"} => val'[i] = val[i])]_state

\* C19 witness: Parse set h to "q" from the file, then GetOpt ran with
\* "-h p": h holds "p" and carries both markers.
C19_Witness ==
    /\ pc = "done"
    /\ call = "GetOpt"
    /\ osArgs = << <<"-", "h">>, <<"p">>, <<"-", "-">> >>
    /\ err = NoError
    /\ calls = << [v |-> 2, p |-> <<"p">>] >>
    /\ vars[2].set
    /\ vars[2].flagSet
    /\ val[2] = <<"p">>

\* C20 as stated, for the command line: in GetOptLong no argument that
\* begins with "--", "--=value" included, calls Set of a Var whose Name is
\* empty.
C20_EmptyNameNoLongFlag ==
    [][(pc = "inner" /\ kind = gnuLongFlag /\ Len(calls') > Len(calls))
          => vars[calls'[Len(calls')].v].Name # <<>>]_state

\* the argument a is a cluster of short flags or a long flag in the dialect fl
FlagArg(a, fl) ==
    /\ Len(a) >= 2
    /\ a # <<"-", "-">>
    /\ Head(a) = "-" \/ (fl = xLong /\ Head(a) = "+")

\* the step takes the head of Args as a flag argument, as the "--" that ends
\* the flags, or as the value of the HasArg flag at the end of this
Removed ==
    \/ /\ pc = "outer"
       /\ Head(Args) = <<"-", "-">>
       /\ pc' = "done"
       /\ err' = NoError
    \/ /\ pc = "outer"
       /\ FlagArg(Head(Args), flavour)
       /\ pc' \in {"inner", "outer"}
    \/ /\ pc = "inner"
       /\ Len(calls') = Len(calls) + 1
       /\ vars[calls'[Len(calls')].v].Kind = HasArg
       /\ calls'[Len(calls')].p = Head(Args)
       /\ this' = <<>>

\* C21: from the start of a command line call to its return, with nil or
\* with an error, Args is what is left of os.Args[1:] after some of its first
\* arguments were taken; a step takes at most one, which is a flag argument,
\* the value of a HasArg flag or the "--" that ends the flags; and os.Args
\* stays as it was.
C21_ArgsSuffix ==
    /\ [](call \in {"GetOpt", "GetOptLong", "GetOptLongOnly"}
             => IsSuffix(Args, osArgs))
    /\ [][(pc \in {"outer", "inner"})
             => (/\ osArgs' = osArgs
                 /\ \/ Args' = Args
                    \/ Args # <<>> /\ Args' = Tail(Args) /\ Removed)]_state

\* C21 witness: GetOpt has returned nil from "-n -h param arg0 -n" with
\* "arg0 -n" left and the command line as it was.
C21_Witness ==
    /\ pc = "done"
    /\ call = "GetOpt"
    /\ err = NoError
    /\ osArgs = Form3(<< S_arg0, <<"-", "n">> >>)
    /\ Args = << S_arg0, <<"-", "n">> >>
    /\ Len(calls) = 2

\* the call of Set recorded in c returns an error
Refused(c) == ValSet(vars[c.v], c.p).err # "nil"

\* the last call of Set recorded in calls that returned nil for the Var i
LastStored(i) ==
    LET ks == {k \in DOMAIN calls : calls[k].v = i /\ ~Refused(calls[k])}
    IN calls[CHOOSE k \in ks : \A j \in ks : j <= k]

\* C22: a call of Set that returns an error ends the parser with that
\* error and changes no marker and no value: in Parse the Var's set is
\* false before and after, in a command line parser its flagSet stays as it
\* was, false if it was false; and when a parser has returned, with or
\* without an error, every Var for which Set returned nil during the call
\* holds what its last such call stored and carries the parser's marker.
C22_FailingSetter ==
    /\ [][(Len(calls') > Len(calls) /\ Refused(calls'[Len(calls')]))
             => LET c == calls'[Len(calls')]
                IN /\ pc' = "done"
                   /\ err'.Err = ValSet(vars[c.v], c.p).err
                   /\ vars' = vars
                   /\ val' = val
                   /\ call = "Parse" => (~vars[c.v].set /\ ~vars'[c.v].set)
                   /\ (call # "Parse" /\ ~vars[c.v].flagSet) => ~vars'[c.v].flagSet]_state
    /\ [](pc = "done"
             => \A k \in DOMAIN calls :
                   LET i == calls[k].v
                   IN IF Refused(calls[k]) THEN k = Len(calls) /\ err # NoError
                      ELSE /\ val[i] = ValSet(vars[i], LastStored(i).p).val
                           /\ IF call = "Parse" THEN vars[i].set ELSE vars[i].flagSet)

\* C22 witness: GetOpt on "-n -k p" has set n, then k's Set refused "p":
\* k is unmarked and unchanged, n keeps its value and its marker.
C22_Witness ==
    /\ pc = "done"
    /\ call = "GetOpt"
    /\ osArgs = << <<"-", "n">>, <<"-", "k">>, <<"p">> >>
    /\ err.Err = errSyntax
    /\ calls = << [v |-> 1, p |-> S_true], [v |-> 5, p |-> <<"p">>] >>
    /\ ~vars[5].flagSet
    /\ val[5] = S_false
    /\ vars[1].flagSet
    /\ val[1] = S_true

\* the lines that are no assignment: no "=" after the identifier, no
\* identifier, an identifier that begins with a digit, no value, a quoted
\* value with an escape that is none, text after a plain value, and text
\* after the quoted value of an identifier that names no Var
Malformed ==
    { Line(<<"h", " ", "p">>),
      Line(<<"=", " ", "p">>),
      Line(<<"9", "h", " ", "=", " ", "p">>),
      Line(<<"h", " ", "=">>),
      Line(Assign(<<"h">>, Quote(<<"\\", "q">>))),
      Line(Assign(<<"h">>, <<"p", " ", "q">>)),
      Line(Assign(<<"x">>, Quote(<<"p">>) \o <<"q">>)) }

\* C23: a line that is no assignment ends Parse with "syntax error" at that
\* line's number, whether its identifier names a Var, a Var the file has
\* set already, or none: Set is not called, and no marker and no value
\* changes.
C23_SyntaxBeforeLookup ==
    [][(pc = "read" /\ input # <<>> /\ Head(input) \in Malformed)
          => (/\ pc' = "done"
              /\ err'.Err = errSyntax
              /\ err'.Line = line + 1
              /\ calls' = calls
              /\ vars' = vars
              /\ val' = val)]_state

\* C23 witness: after "h = p" the line "h = p q" has ended Parse with
\* "syntax error", not "already defined", and h holds "p".
C23_Witness ==
    /\ pc = "done"
    /\ call = "Parse"
    /\ file = << Line(Assign(<<"h">>, <<"p">>)), Line(Assign(<<"h">>, <<"p", " ", "q">>)) >>
    /\ err.Err = errSyntax
    /\ err.Line = 2
    /\ calls = << [v |-> 2, p |-> <<"p">>] >>
    /\ vars[2].set
    /\ val[2] = <<"p">>

\* the running or last call is Parse and it has called Set of the Var i
Called(i) == call = "Parse" /\ \E k \in DOMAIN calls : calls[k].v = i

\* the running or last call is Parse and its call of Set of the Var i has
\* returned nil
Stored(i) ==
    call = "Parse" /\ \E k \in DOMAIN calls : calls[k].v = i /\ ~Refused(calls[k])

\* set and flagSet of a Var are never reset
MarkersMonotonic ==
    [][\A i \in DOMAIN vars :
          /\ vars[i].set => vars'[i].set
          /\ vars[i].flagSet => vars'[i].flagSet]_state

\* Parse reading an assignment to a Var whose set is true, set by this call
\* or by an earlier one, returns "already defined" without a call of Set
AssignedAgain ==
    [][\A i \in DOMAIN vars :
          (/\ pc = "read"
           /\ input # <<>>
           /\ AssignsTo(Head(input), i)
           /\ vars[i].set)
          => (/\ pc' = "done"
              /\ err'.Err = errAlreadyDef
              /\ err'.Ident = vars[i].Name
              /\ calls' = calls
              /\ val' = val)]_state

\* C24 as amended: over any sequence of calls of Parse and of the command
\* line parsers on one registry, set and flagSet of a Var are never reset;
\* Parse calls Set of a Var only while both its markers are false, at most
\* once in one call, and marks the Var set exactly when Set returns nil, so
\* that once a call of Parse had Set return nil for a Var, the Var is
\* marked set for good and no call of Parse calls its Set again (after a
\* Set that returned an error a later Parse may call it again); and a later
\* Parse fails with "already defined" at an assignment to an identifier an
\* earlier Parse assigned.
C24_SetOnceFromFile ==
    /\ MarkersMonotonic
    /\ AssignedAgain
    /\ [][(call = "Parse" /\ Len(calls') > Len(calls))
             => LET c == calls'[Len(calls')]
                IN /\ ~vars[c.v].set
                   /\ ~vars[c.v].flagSet
                   /\ vars'[c.v].set = ~Refused(c)
                   /\ c.v \in tried'
                   /\ c.v \in tried => ~Stored(c.v)]_state
    /\ [](\A i \in DOMAIN vars :
             /\ Stored(i) => (vars[i].set /\ i \in tried)
             /\ Called(i) => Cardinality({k \in DOMAIN calls : calls[k].v = i}) = 1)

\* C24 witness: the first line of a later Parse assigned h, which an
\* earlier Parse had assigned: "already defined", and Set was not called.
C24_Witness ==
    /\ pc = "done"
    /\ call = "Parse"
    /\ file # <<>>
    /\ file[1] = Line(Assign(<<"h">>, <<"q">>))
    /\ line = 1
    /\ err.Err = errAlreadyDef
    /\ err.Ident = <<"h">>
    /\ calls = <<>>
    /\ vars[2].set
    /\ ~vars[2].flagSet
    /\ val[2] = <<"q">>

\* C24 as stated: set and flagSet of a Var are never reset, a later Parse
\* fails with "already defined" at an identifier an earlier Parse assigned,
\* and Parse never calls Set of a Var whose Set a call of Parse has called
\* before, whatever Set returned then.
C24_SetterCalledOnce ==
    /\ MarkersMonotonic
    /\ AssignedAgain
    /\ [][(call = "Parse" /\ Len(calls') > Len(calls))
             => calls'[Len(calls')].v \notin tried]_state

====
